---------------------------- MODULE Spec2Model ----------------------------
(***************************************************************************)
(* A model of api-tester (src/api-tester/src/main.rs): the /proxy handler  *)
(* with its moka response cache and prometheus metrics, the /ws relay and  *)
(* the /graphql adapter.  Every inbound call is served by its own task;    *)
(* a task is suspended only at the handler's .await points, so one action  *)
(* of the model is the code between two consecutive .await points.         *)
(***************************************************************************)
EXTENDS Integers, Sequences, FiniteSets, TLC

(* ------------------------------ bounds ---------------------------------- *)

\* Number of calls (tasks) the server handles, possibly concurrently.
NumTasks == 2
\* Longest message list a caller hands to /ws.
MaxMsgs == 3
\* Most inbound frames the peer delivers during one listen phase.
MaxFrames == 2
\* Most relay sessions opened in one run (a session shares no state with any
\* other call).
MaxRelays == 1
\* The last millisecond of the clock.
MaxClock == 1

Tasks == 1..NumTasks

(* ----------------------- program constants ------------------------------ *)

\* const REQUEST_TIMEOUT: Duration = Duration::from_secs(30)
REQUEST_TIMEOUT == 30
\* tokio::time::timeout(REQUEST_TIMEOUT, request_builder.send())
HandlerTimeout == REQUEST_TIMEOUT
\* reqwest::Client::builder().timeout(REQUEST_TIMEOUT): the shared client's own
\* timer, which covers the whole exchange (connect, headers and body).
\* (ClientTimeoutUnset: a client built without .timeout(..).)
ClientTimeoutUnset == FALSE
ClientTimeoutSet == TRUE
ClientTimeout == REQUEST_TIMEOUT

(* --------------------------- strings ------------------------------------ *)

\* A Rust String is modelled as the sequence of its characters (tokens).
GET    == <<"G", "E", "T">>
POST   == <<"P", "O", "S", "T">>
PUT    == <<"P", "U", "T">>
DELETE == <<"D", "E", "L", "E", "T", "E">>
PATCH  == <<"P", "A", "T", "C", "H">>
TRACE  == <<"T", "R", "A", "C", "E">>
get    == <<"g", "e", "t">>

\* char::to_uppercase on the characters the model's strings are made of.
UpperChar(c) ==
    CASE c = "g" -> "G"
      [] c = "e" -> "E"
      [] c = "t" -> "T"
      [] OTHER   -> c

\* str::to_uppercase
to_uppercase(s) == [k \in DOMAIN s |-> UpperChar(s[k])]

Range(s) == {s[k] : k \in DOMAIN s}

(* --------------------------- ProxyRequest ------------------------------- *)

\* Option<T>
None == [some |-> FALSE]
Some(v) == [some |-> TRUE, v |-> v]

\* A HashMap<String, String> instance is the sequence of its entries in the order
\* this instance iterates them: std's HashMap seeds every instance with its own
\* RandomState, so two maps holding the same entries may iterate differently.
HeaderAB == << <<"a", "1">>, <<"b", "2">> >>
HeaderBA == << <<"b", "2">>, <<"a", "1">> >>
HeaderMaps == {None, Some(HeaderAB), Some(HeaderBA)}

Methods == {GET, get, POST, TRACE}
Urls == {<<"u">>}
Bodies == {None}

\* struct ProxyRequest, as deserialized from the caller's JSON.
ProxyRequests ==
    [method : Methods, url : Urls, headers : HeaderMaps, body : Bodies,
     use_cache : BOOLEAN]

\* The entries a headers field holds, whatever the order its map iterates them in.
HeaderEntries(h) == IF h.some THEN Range(h.v) ELSE {}

(* --------------------------- fingerprint -------------------------------- *)

RECURSIVE JoinEntries(_)
\* serde_json's map serializer: "k":"v" pairs, comma separated, in iteration order.
JoinEntries(es) ==
    IF es = <<>> THEN <<>>
    ELSE <<es[1][1], ":", es[1][2]>>
         \o (IF Len(es) > 1 THEN <<",">> ELSE <<>>)
         \o JoinEntries(Tail(es))

\* serde_json::to_string(&req.headers): None is null, Some(map) is an object.
HeadersToString(h) ==
    IF h.some THEN <<"{">> \o JoinEntries(h.v) \o <<"}">> ELSE <<"null">>

\* serde_json::to_string(&req.body)
BodyToString(b) == IF b.some THEN <<b.v>> ELSE <<"null">>

\* fn generate_cache_key: format!("{}:{}:{}:{}", method, url, headers, body)
generate_cache_key(r) ==
    r.method \o <<":">> \o r.url \o <<":">> \o HeadersToString(r.headers)
             \o <<":">> \o BodyToString(r.body)


(* --------------------------- proxy helpers ------------------------------ *)

\* if req.use_cache && req.method == "GET"  (the lookup's test)
\* (LookupIgnoresFlag: the test without req.use_cache.)
LookupIgnoresFlag(r) == r.method = GET
\* (LookupAnyCase: the test on the upper-cased method, as the dispatch does.)
LookupAnyCase(r) == r.use_cache /\ to_uppercase(r.method) = GET
LookupEligible(r) == r.use_cache /\ r.method = GET

\* if req.use_cache && req.method == "GET" && status >= 200 && status < 300
\* (StoreAnyStatus: the test without the upper end of the status range.)
StoreAnyStatus(r, status) == r.use_cache /\ r.method = GET /\ status >= 200
StoreEligible(r, status) ==
    r.use_cache /\ r.method = GET /\ status >= 200 /\ status < 300

\* The arms of match req.method.to_uppercase().as_str() that build a request.
\* (MethodSupportedAny: a catch-all arm that builds a request too.)
SupportedMethods == {GET, POST, PUT, DELETE, PATCH}
MethodSupportedAny(m) == TRUE
MethodSupported(m) == to_uppercase(m) \in SupportedMethods

\* What the upstream may answer: status line, headers, and a JSON body or one
\* that does not decode.
Statuses == {199, 200, 300}
RespHeaders == {<< <<"content-type", "application/json">> >>}
JsonBodies == {"b1", "b2"}
Null == "null"

\* struct ProxyResponse; the timestamp is the instant Utc::now() returned.
ProxyResponse(status, headers, body, cached, timestamp, duration_ms) ==
    [status |-> status, headers |-> headers, body |-> body, cached |-> cached,
     timestamp |-> timestamp, duration_ms |-> duration_ms]


\* HttpResponse::<Status>().json(value)
HttpResponse(code, json) == [code |-> code, json |-> json]
\* json!({"error": ...}): the message, and the Display of the error it formats.
ErrorJson(msg) == [error |-> msg]

\* state.client.get(&req.url), .post(..), ...: the outbound request, by the
\* HTTP method of the arm that built it.
RequestBuilder(method, url) == [method |-> method, url |-> url]

\* The Display of the reqwest::Error a failed send() carries.
ConnectError == "error sending request"
TimedOutError == "operation timed out"

\* moka Cache::get: the stored value, as stored.
CacheGet(c, key) == c[key]

\* moka Cache::insert: the entry under key is created or replaced.
CacheInsert(c, key, value) ==
    [k \in DOMAIN c \cup {key} |-> IF k = key THEN value ELSE c[k]]

\* moka's expiry (time_to_live) or eviction (max_capacity) of one entry.
CacheRemove(c, key) == [k \in DOMAIN c \ {key} |-> c[k]]

\* IntCounterVec::with_label_values(labels).inc()
IncLabel(f, l) ==
    [k \in DOMAIN f \cup {l} |-> IF k = l
                                 THEN (IF l \in DOMAIN f THEN f[l] + 1 ELSE 1)
                                 ELSE f[k]]

\* tokio::time::timeout polls send() and its own deadline; the client's timer is
\* armed by send() with the same duration.  The timer whose duration is not the
\* longer one may be the one that ends the wait.
ClientTimerMayFire == ClientTimeoutSet /\ ClientTimeout <= HandlerTimeout
HandlerTimerMayFire == ~ClientTimeoutSet \/ HandlerTimeout <= ClientTimeout

(* ------------------------------ state ----------------------------------- *)

VARIABLES
    pc,         \* pc[t]: the .await point task t is suspended at
    handler,    \* handler[t]: "none", "proxy", "websocket" or "graphql"
    req,        \* req[t]: the request task t was called with
    result,     \* result[t]: the HttpResponse task t returned
    up,         \* up[t]: status and headers of the upstream response, and
                \*   the response_data built from it (proxy)
    ws,         \* ws[t]: the relay's locals (loop index, transcript, listen
                \*   window), its wire, and what was read from it
    cache,      \* state.cache: fingerprint -> ProxyResponse
    ACTIVE_REQUESTS,
    CACHE_HITS,
    HTTP_REQUESTS_TOTAL,
    REQUEST_DURATION,   \* number of observations of the histogram
    now,        \* the clock, in milliseconds
    start_time, \* start_time[t]: Instant::now() at the start of task t's call
    request_builder,    \* request_builder[t]: the outbound request task t built
    \* history variables, read by the properties only
    path,       \* path[t]: the exit path task t's call took
    contacted,  \* contacted[t]: how often task t's call contacted the upstream
    prior,      \* prior[t]: fetches that had completed when t's call was issued
                \*   and whose cache entry was still there when t looked it up
    origin      \* origin[key]: the task whose call stored the entry under key

proxyVars == <<up, cache, ACTIVE_REQUESTS, CACHE_HITS, HTTP_REQUESTS_TOTAL,
               REQUEST_DURATION, now, start_time, request_builder, contacted,
               prior, origin>>
vars == <<pc, handler, req, result, up, ws, cache, ACTIVE_REQUESTS, CACHE_HITS,
          HTTP_REQUESTS_TOTAL, REQUEST_DURATION, now, start_time,
          request_builder, path, contacted, prior, origin>>

\* The relay's locals before the connection is split.
WsIdle ==
    [i |-> 0, messages |-> <<>>, wire |-> <<>>, reads |-> 0, texts |-> 0,
     failed_at |-> 0, listened |-> FALSE, window |-> 0]

Init ==
    /\ pc = [t \in Tasks |-> "idle"]
    /\ handler = [t \in Tasks |-> "none"]
    /\ req = [t \in Tasks |-> None]
    /\ result = [t \in Tasks |-> None]
    /\ up = [t \in Tasks |-> None]
    /\ ws = [t \in Tasks |-> WsIdle]
    /\ cache = <<>>
    /\ ACTIVE_REQUESTS = 0
    /\ CACHE_HITS = 0
    /\ HTTP_REQUESTS_TOTAL = <<>>
    /\ REQUEST_DURATION = 0
    /\ now = 0
    /\ start_time = [t \in Tasks |-> 0]
    /\ request_builder = [t \in Tasks |-> None]
    /\ path = [t \in Tasks |-> "none"]
    /\ contacted = [t \in Tasks |-> 0]
    /\ prior = [t \in Tasks |-> {}]
    /\ origin = <<>>

\* start_time.elapsed().as_millis() as u64, for the call of task t
Elapsed(t) == now - start_time[t]

\* The tasks whose fetch has returned and whose cache entry is in c.
LiveFetches(c, o) ==
    {u \in Tasks : pc[u] = "done" /\ path[u] = "ok"
                   /\ \E k \in DOMAIN c : o[k] = u}

(* ------------------------------ /proxy ---------------------------------- *)

\* main.rs 135-167: build the headers, match the method, build the request and
\* start send() under the handler's timeout.  The unsupported arm returns at
\* once (and leaves the gauge as it is).
Dispatch(t, r) ==
    IF MethodSupported(r.method)
    THEN /\ pc' = [pc EXCEPT ![t] = "p_send"]
         /\ request_builder' = [request_builder EXCEPT
                ![t] = Some(RequestBuilder(to_uppercase(r.method), r.url))]
         /\ contacted' = [contacted EXCEPT ![t] = @ + 1]
         /\ UNCHANGED <<result, path>>
    ELSE /\ pc' = [pc EXCEPT ![t] = "done"]
         /\ result' = [result EXCEPT
                ![t] = HttpResponse(400, ErrorJson(<<"Unsupported HTTP method">>))]
         /\ path' = [path EXCEPT ![t] = "unsupported"]
         /\ UNCHANGED <<contacted, request_builder>>

\* proxy is called: the start time is taken and the gauge is incremented; an
\* eligible request awaits
\* cache.get, any other goes straight to the dispatch.
ProxyBegin(t, r) ==
    /\ pc[t] = "idle"
    /\ handler' = [handler EXCEPT ![t] = "proxy"]
    /\ req' = [req EXCEPT ![t] = r]
    /\ ACTIVE_REQUESTS' = ACTIVE_REQUESTS + 1
    /\ start_time' = [start_time EXCEPT ![t] = now]
    /\ prior' = [prior EXCEPT ![t] = LiveFetches(cache, origin)]
    /\ IF LookupEligible(r)
       THEN /\ pc' = [pc EXCEPT ![t] = "p_lookup"]
            /\ UNCHANGED <<result, path, contacted, request_builder>>
       ELSE Dispatch(t, r)
    /\ UNCHANGED <<up, ws, cache, CACHE_HITS, HTTP_REQUESTS_TOTAL,
                   REQUEST_DURATION, now, origin>>

\* cache.get(&cache_key).await returns: a hit returns the stored value, a miss
\* goes on to the dispatch.
ProxyLookup(t) ==
    /\ pc[t] = "p_lookup"
    /\ LET key == generate_cache_key(req[t]) IN
       IF key \in DOMAIN cache
       THEN /\ CACHE_HITS' = CACHE_HITS + 1
            /\ ACTIVE_REQUESTS' = ACTIVE_REQUESTS - 1
            /\ result' = [result EXCEPT
                   ![t] = HttpResponse(200, CacheGet(cache, key))]
            /\ path' = [path EXCEPT ![t] = "hit"]
            /\ pc' = [pc EXCEPT ![t] = "done"]
            /\ UNCHANGED <<contacted, request_builder>>
       ELSE /\ Dispatch(t, req[t])
            /\ UNCHANGED <<CACHE_HITS, ACTIVE_REQUESTS>>
    /\ prior' = [prior EXCEPT ![t] = @ \cap LiveFetches(cache, origin)]
    /\ UNCHANGED <<handler, req, up, ws, cache, HTTP_REQUESTS_TOTAL,
                   REQUEST_DURATION, now, start_time, origin>>

\* send() resolves to Ok(response): the request counter is incremented and the
\* headers are collected; the body is awaited next.
ProxySendOk(t, status, headers) ==
    /\ pc[t] = "p_send"
    /\ HTTP_REQUESTS_TOTAL' =
           IncLabel(HTTP_REQUESTS_TOTAL, <<req[t].method, status>>)
    /\ up' = [up EXCEPT ![t] = [status |-> status, headers |-> headers,
                                data |-> None]]
    /\ pc' = [pc EXCEPT ![t] = "p_body"]
    /\ UNCHANGED <<handler, req, result, ws, cache, ACTIVE_REQUESTS, CACHE_HITS,
                   REQUEST_DURATION, path, contacted, prior, origin,
                   now, start_time, request_builder>>

\* Ok(Err(e)): send() failed with error e; how records what made it fail.
\* (SendFailedInvalidates: the failed call also drops the entry of its request.)
SendFailedInvalidates(t, e, how) ==
    /\ ACTIVE_REQUESTS' = ACTIVE_REQUESTS - 1
    /\ result' = [result EXCEPT
           ![t] = HttpResponse(500, ErrorJson(<<"Request failed", e>>))]
    /\ path' = [path EXCEPT ![t] = how]
    /\ pc' = [pc EXCEPT ![t] = "done"]
    /\ cache' = CacheRemove(cache, generate_cache_key(req[t]))
    /\ origin' = CacheRemove(origin, generate_cache_key(req[t]))
    /\ UNCHANGED <<handler, req, up, ws, CACHE_HITS, HTTP_REQUESTS_TOTAL,
                   REQUEST_DURATION, contacted, prior,
                   now, start_time, request_builder>>
SendFailed(t, e, how) ==
    /\ ACTIVE_REQUESTS' = ACTIVE_REQUESTS - 1
    /\ result' = [result EXCEPT
           ![t] = HttpResponse(500, ErrorJson(<<"Request failed", e>>))]
    /\ path' = [path EXCEPT ![t] = how]
    /\ pc' = [pc EXCEPT ![t] = "done"]
    /\ UNCHANGED <<handler, req, up, ws, cache, CACHE_HITS, HTTP_REQUESTS_TOTAL,
                   REQUEST_DURATION, contacted, prior, origin,
                   now, start_time, request_builder>>

\* The network or connect layer fails.
ProxySendErr(t) ==
    /\ pc[t] = "p_send"
    /\ SendFailed(t, ConnectError, "send_err")

\* The client's own timer expires while send() is pending: send() resolves to
\* a timeout error, which the handler reports like any other failed send.
ProxyClientTimeout(t) ==
    /\ pc[t] = "p_send"
    /\ ClientTimerMayFire
    /\ SendFailed(t, TimedOutError, "client_timeout")

\* Err(_): the handler's deadline elapses while send() is pending.
ProxyTimeout(t) ==
    /\ pc[t] = "p_send"
    /\ HandlerTimerMayFire
    /\ ACTIVE_REQUESTS' = ACTIVE_REQUESTS - 1
    /\ result' = [result EXCEPT
           ![t] = HttpResponse(504, ErrorJson(<<"Request timeout">>))]
    /\ path' = [path EXCEPT ![t] = "timeout"]
    /\ pc' = [pc EXCEPT ![t] = "done"]
    /\ UNCHANGED <<handler, req, up, ws, cache, CACHE_HITS, HTTP_REQUESTS_TOTAL,
                   REQUEST_DURATION, contacted, prior, origin,
                   now, start_time, request_builder>>

\* ACTIVE_REQUESTS.dec(); HttpResponse::Ok().json(response_data)
Returned(t, response_data) ==
    /\ ACTIVE_REQUESTS' = ACTIVE_REQUESTS - 1
    /\ result' = [result EXCEPT ![t] = HttpResponse(200, response_data)]
    /\ path' = [path EXCEPT ![t] = "ok"]
    /\ pc' = [pc EXCEPT ![t] = "done"]

\* response.json() resolves to Ok(body): the duration is observed and the
\* response is built with cached: false.  When eligible it is inserted into
\* the cache and the insert is awaited; otherwise it is returned.
ProxyBodyOk(t, body) ==
    /\ pc[t] = "p_body"
    /\ REQUEST_DURATION' = REQUEST_DURATION + 1
    /\ LET duration == Elapsed(t)
           response_data ==
               ProxyResponse(up[t].status, up[t].headers, body, FALSE, now,
                             duration)
           cache_key == generate_cache_key(req[t])
       IN  /\ up' = [up EXCEPT ![t].data = Some(response_data)]
           /\ IF StoreEligible(req[t], up[t].status)
              THEN /\ cache' = CacheInsert(cache, cache_key, response_data)
                   /\ origin' = CacheInsert(origin, cache_key, t)
                   /\ pc' = [pc EXCEPT ![t] = "p_store"]
                   /\ UNCHANGED <<ACTIVE_REQUESTS, result, path>>
              ELSE /\ Returned(t, response_data)
                   /\ UNCHANGED <<cache, origin>>
    /\ UNCHANGED <<handler, req, ws, CACHE_HITS, HTTP_REQUESTS_TOTAL,
                   contacted, prior,
                   now, start_time, request_builder>>

\* cache.insert(..).await returns: the response is returned.
ProxyStored(t) ==
    /\ pc[t] = "p_store"
    /\ Returned(t, up[t].data.v)
    /\ UNCHANGED <<handler, req, up, ws, cache, CACHE_HITS, HTTP_REQUESTS_TOTAL,
                   REQUEST_DURATION, contacted, prior, origin,
                   now, start_time, request_builder>>

\* response.json() resolves to Err(e): the response is returned with a null
\* body; how records what made it fail.
\* (BodyFailedPropagates: the decode error is reported as a failed request.)
BodyFailedPropagates(t, how) ==
    /\ ACTIVE_REQUESTS' = ACTIVE_REQUESTS - 1
    /\ result' = [result EXCEPT
           ![t] = HttpResponse(500, ErrorJson(<<"Request failed", how>>))]
    /\ path' = [path EXCEPT ![t] = how]
    /\ pc' = [pc EXCEPT ![t] = "done"]
    /\ UNCHANGED <<handler, req, up, ws, cache, CACHE_HITS, HTTP_REQUESTS_TOTAL,
                   REQUEST_DURATION, contacted, prior, origin,
                   now, start_time, request_builder>>
BodyFailed(t, how) ==
    /\ ACTIVE_REQUESTS' = ACTIVE_REQUESTS - 1
    /\ result' = [result EXCEPT ![t] = HttpResponse(200,
           ProxyResponse(up[t].status, up[t].headers, Null, FALSE, now,
                         Elapsed(t)))]
    /\ path' = [path EXCEPT ![t] = how]
    /\ pc' = [pc EXCEPT ![t] = "done"]
    /\ UNCHANGED <<handler, req, up, ws, cache, CACHE_HITS, HTTP_REQUESTS_TOTAL,
                   REQUEST_DURATION, contacted, prior, origin,
                   now, start_time, request_builder>>

\* The body is not JSON, or reading it fails.
ProxyBodyErr(t) ==
    /\ pc[t] = "p_body"
    /\ BodyFailed(t, "decode_err")

\* The client's timer expires while the body is read: response.json() is not
\* under the handler's timeout, only under the client's.
ProxyBodyClientTimeout(t) ==
    /\ pc[t] = "p_body"
    /\ ClientTimeoutSet
    /\ BodyFailed(t, "body_timeout")

\* An entry leaves the cache: its time to live is over, or it is evicted.
Expire(key) ==
    /\ key \in DOMAIN cache
    /\ cache' = CacheRemove(cache, key)
    /\ origin' = CacheRemove(origin, key)
    /\ UNCHANGED <<pc, handler, req, result, up, ws, ACTIVE_REQUESTS, CACHE_HITS,
                   HTTP_REQUESTS_TOTAL, REQUEST_DURATION, path, contacted, prior,
                   now, start_time, request_builder>>

\* Time passes: a millisecond of the clock.
Tick ==
    /\ now < MaxClock
    /\ now' = now + 1
    /\ UNCHANGED <<pc, handler, req, result, up, ws, cache, ACTIVE_REQUESTS,
                   CACHE_HITS, HTTP_REQUESTS_TOTAL, REQUEST_DURATION, start_time,
                   request_builder, path, contacted, prior, origin>>

ProxyNext ==
    \/ \E t \in Tasks, r \in ProxyRequests : ProxyBegin(t, r)
    \/ \E t \in Tasks : ProxyLookup(t)
    \/ \E t \in Tasks, s \in Statuses, h \in RespHeaders : ProxySendOk(t, s, h)
    \/ \E t \in Tasks : ProxySendErr(t)
    \/ \E t \in Tasks : ProxyClientTimeout(t)
    \/ \E t \in Tasks : ProxyTimeout(t)
    \/ \E t \in Tasks, b \in JsonBodies : ProxyBodyOk(t, b)
    \/ \E t \in Tasks : ProxyStored(t)
    \/ \E t \in Tasks : ProxyBodyErr(t)
    \/ \E t \in Tasks : ProxyBodyClientTimeout(t)
    \/ \E k \in DOMAIN cache : Expire(k)

ProxySpec == Init /\ [][ProxyNext]_vars

\* The proxy with the clock running between its steps.
TimedProxyNext == ProxyNext \/ Tick
TimedProxySpec == Init /\ [][TimedProxyNext]_vars

(* -------------------------------- /ws ----------------------------------- *)

\* Url::parse(&req.url): an absolute URL (scheme, ":", rest) parses, a string
\* without a scheme does not.
UrlParses(u) == \E k \in DOMAIN u : u[k] = ":"

WsUrls == {<<"ws", ":", "//echo">>, <<"echo">>}
\* The caller's k-th message; the messages of a list are pairwise different, so
\* that the order of a transcript can be read off its contents.
WsText(k) == <<"m", k>>
MessageLists == {[k \in 1..n |-> WsText(k)] : n \in 0..MaxMsgs}

\* struct WebSocketRequest; duration is an Option<u64> of seconds.
Durations == {None, Some(1)}
WebSocketRequests ==
    [url : WsUrls, messages : MessageLists, duration : Durations]

\* Duration::from_secs(req.duration.unwrap_or(5))
ListenDuration(r) == IF r.duration.some THEN r.duration.v ELSE 5

\* The frames the peer may deliver: a tungstenite Message and whether its
\* payload is UTF-8.
InboundFrames ==
    {[kind |-> "text", data |-> <<"x">>, utf8 |-> TRUE],
     [kind |-> "binary", data |-> <<"x">>, utf8 |-> TRUE],
     [kind |-> "binary", data |-> <<"y">>, utf8 |-> FALSE],
     [kind |-> "ping", data |-> <<>>, utf8 |-> TRUE],
     [kind |-> "close", data |-> <<>>, utf8 |-> TRUE]}

\* Message::to_text: Ok(text) for a text frame and for a close frame (its
\* reason), and for any other frame whose payload is UTF-8; Err otherwise.
to_text(f) == IF f.utf8 THEN Some(f.data) ELSE None

\* struct WebSocketMessage (the timestamp is not modelled).
WebSocketMessage(direction, content) ==
    [direction |-> direction, content |-> content]

\* messages.push(entry)
\* (WsPushFront: messages.insert(0, entry).)
WsPushFront(messages, entry) == <<entry>> \o messages
WsPush(messages, entry) == Append(messages, entry)

\* Where the send loop resumes after a failed send: break leaves the loop.
\* (SendErrorContinue: continue instead of break.)
SendErrorContinue(msgs, k) == k + 1
SendErrorResume(msgs, k) == Len(msgs) + 1

\* The head of the for loop at index k: the next send is awaited, or the loop is
\* over, the listen window's timer is armed and the first read is awaited.
EnterLoop(t, w, k) ==
    IF k <= Len(req[t].messages)
    THEN /\ ws' = [ws EXCEPT ![t] = [w EXCEPT !.i = k]]
         /\ pc' = [pc EXCEPT ![t] = "ws_send"]
    ELSE /\ ws' = [ws EXCEPT ![t] = [w EXCEPT !.i = k, !.listened = TRUE,
                                              !.window = ListenDuration(req[t])]]
         /\ pc' = [pc EXCEPT ![t] = "ws_listen"]

\* websocket is called: the URL is parsed, and connect_async is awaited.
WsBegin(t, r) ==
    /\ pc[t] = "idle"
    /\ Cardinality({u \in Tasks : handler[u] = "websocket"}) < MaxRelays
    /\ handler' = [handler EXCEPT ![t] = "websocket"]
    /\ req' = [req EXCEPT ![t] = r]
    /\ IF UrlParses(r.url)
       THEN /\ pc' = [pc EXCEPT ![t] = "ws_connect"]
            /\ UNCHANGED <<result, path>>
       ELSE /\ pc' = [pc EXCEPT ![t] = "done"]
            /\ result' = [result EXCEPT
                   ![t] = HttpResponse(400, ErrorJson(<<"Invalid WebSocket URL">>))]
            /\ path' = [path EXCEPT ![t] = "invalid_url"]
    /\ UNCHANGED <<ws, proxyVars>>

\* connect_async resolves to Ok: the stream is split and the send loop starts.
WsConnectOk(t) ==
    /\ pc[t] = "ws_connect"
    /\ EnterLoop(t, ws[t], 1)
    /\ UNCHANGED <<handler, req, result, path, proxyVars>>

\* connect_async resolves to Err.
WsConnectErr(t) ==
    /\ pc[t] = "ws_connect"
    /\ pc' = [pc EXCEPT ![t] = "done"]
    /\ result' = [result EXCEPT ![t] =
           HttpResponse(500, ErrorJson(<<"WebSocket connection failed">>))]
    /\ path' = [path EXCEPT ![t] = "connect_err"]
    /\ UNCHANGED <<handler, req, ws, proxyVars>>

\* write.send(Text(msg)) resolves to Ok: the message is on the wire, a "sent"
\* entry is pushed, and the 100 ms sleep is awaited.
WsSendOk(t) ==
    /\ pc[t] = "ws_send"
    /\ LET msg == req[t].messages[ws[t].i] IN
       ws' = [ws EXCEPT ![t].wire = Append(@, msg),
                        ![t].messages = WsPush(@, WebSocketMessage("sent", msg))]
    /\ pc' = [pc EXCEPT ![t] = "ws_sleep"]
    /\ UNCHANGED <<handler, req, result, path, proxyVars>>

\* write.send resolves to Err: the loop is left.
WsSendErr(t) ==
    /\ pc[t] = "ws_send"
    /\ EnterLoop(t, [ws[t] EXCEPT !.failed_at = ws[t].i],
                 SendErrorResume(req[t].messages, ws[t].i))
    /\ UNCHANGED <<handler, req, result, path, proxyVars>>

\* The sleep is over: the loop goes on with the next message.
WsSleep(t) ==
    /\ pc[t] = "ws_sleep"
    /\ EnterLoop(t, ws[t], ws[t].i + 1)
    /\ UNCHANGED <<handler, req, result, path, proxyVars>>

\* read.next() yields Some(Ok(msg)): a "received" entry is pushed when
\* msg.to_text() is Ok, and the next frame is awaited.
WsRecv(t, f) ==
    /\ pc[t] = "ws_listen"
    /\ ws[t].reads < MaxFrames
    /\ ws' = [ws EXCEPT
           ![t].reads = @ + 1,
           ![t].texts = IF f.kind = "text" THEN @ + 1 ELSE @,
           ![t].messages =
               IF to_text(f).some
               THEN WsPush(@, WebSocketMessage("received", to_text(f).v))
               ELSE @]
    /\ UNCHANGED <<pc, handler, req, result, path, proxyVars>>

\* HttpResponse::Ok().json({messages, duration_ms, status: "completed"})
\* (CompletedOrError: a receive error is reported as an error response.)
CompletedOrError(t, how) ==
    /\ pc' = [pc EXCEPT ![t] = "done"]
    /\ result' = [result EXCEPT ![t] =
           IF how = "recv_err"
           THEN HttpResponse(500, ErrorJson(<<"WebSocket receive error">>))
           ELSE HttpResponse(200,
                    [messages |-> ws[t].messages, status |-> "completed"])]
    /\ path' = [path EXCEPT ![t] = how]
    /\ UNCHANGED <<handler, req, ws, proxyVars>>
Completed(t, how) ==
    /\ pc' = [pc EXCEPT ![t] = "done"]
    /\ result' = [result EXCEPT ![t] = HttpResponse(200,
           [messages |-> ws[t].messages, status |-> "completed"])]
    /\ path' = [path EXCEPT ![t] = how]
    /\ UNCHANGED <<handler, req, ws, proxyVars>>

\* read.next() yields Some(Err(e)): the listen loop is left.
WsRecvErr(t) ==
    /\ pc[t] = "ws_listen"
    /\ Completed(t, "recv_err")

\* read.next() yields None: the connection has ended.
WsStreamEnd(t) ==
    /\ pc[t] = "ws_listen"
    /\ Completed(t, "closed")

\* The listen window's timer fires: the listen loop is abandoned.
\* (WsListenUnbounded: the listen loop awaited without tokio::time::timeout.)
WsListenUnbounded(t) ==
    /\ pc[t] = "ws_listen"
    /\ ws[t].window < 0
    /\ Completed(t, "window")
WsListenTimeout(t) ==
    /\ pc[t] = "ws_listen"
    /\ Completed(t, "window")

WsNext ==
    \/ \E t \in Tasks, r \in WebSocketRequests : WsBegin(t, r)
    \/ \E t \in Tasks : WsConnectOk(t)
    \/ \E t \in Tasks : WsConnectErr(t)
    \/ \E t \in Tasks : WsSendOk(t)
    \/ \E t \in Tasks : WsSendErr(t)
    \/ \E t \in Tasks : WsSleep(t)
    \/ \E t \in Tasks, f \in InboundFrames : WsRecv(t, f)
    \/ \E t \in Tasks : WsRecvErr(t)
    \/ \E t \in Tasks : WsStreamEnd(t)
    \/ \E t \in Tasks : WsListenTimeout(t)

WsSpec == Init /\ [][WsNext]_vars

(* ------------------------------ /graphql -------------------------------- *)

\* struct GraphQLRequest
GraphQLRequests ==
    {[url |-> <<"g">>, query |-> "{ q }", variables |-> None, headers |-> None]}

\* The JSON documents a GraphQL upstream may answer with.
GqlBodies ==
    {[data |-> "d", errors |-> Null], [data |-> Null, errors |-> "e"]}

\* graphql is called: a fresh client (no timeout) posts {query, variables}.
GqlBegin(t, r) ==
    /\ pc[t] = "idle"
    /\ handler' = [handler EXCEPT ![t] = "graphql"]
    /\ req' = [req EXCEPT ![t] = r]
    /\ pc' = [pc EXCEPT ![t] = "g_send"]
    /\ request_builder' = [request_builder EXCEPT
           ![t] = Some(RequestBuilder(POST, r.url))]
    /\ contacted' = [contacted EXCEPT ![t] = @ + 1]
    /\ UNCHANGED <<result, path, ws, up, cache, ACTIVE_REQUESTS, CACHE_HITS,
                   HTTP_REQUESTS_TOTAL, REQUEST_DURATION, prior, origin,
                   now, start_time>>

\* send() resolves to Ok(response): the body is awaited.
GqlSendOk(t) ==
    /\ pc[t] = "g_send"
    /\ pc' = [pc EXCEPT ![t] = "g_body"]
    /\ UNCHANGED <<handler, req, result, path, ws, proxyVars>>

\* An error response of the adapter.
GqlFailed(t, msg, how) ==
    /\ pc' = [pc EXCEPT ![t] = "done"]
    /\ result' = [result EXCEPT ![t] = HttpResponse(500, ErrorJson(msg))]
    /\ path' = [path EXCEPT ![t] = how]
    /\ UNCHANGED <<handler, req, ws, proxyVars>>

\* send() resolves to Err.
GqlSendErr(t) ==
    /\ pc[t] = "g_send"
    /\ GqlFailed(t, <<"GraphQL request failed">>, "send_err")

\* response.json() resolves to Ok: data and errors are surfaced.
GqlBodyOk(t, b) ==
    /\ pc[t] = "g_body"
    /\ pc' = [pc EXCEPT ![t] = "done"]
    /\ result' = [result EXCEPT ![t] =
           HttpResponse(200, [data |-> b.data, errors |-> b.errors])]
    /\ path' = [path EXCEPT ![t] = "ok"]
    /\ UNCHANGED <<handler, req, ws, proxyVars>>

\* response.json() resolves to Err.
GqlBodyErr(t) ==
    /\ pc[t] = "g_body"
    /\ GqlFailed(t, <<"Failed to parse GraphQL response">>, "decode_err")

GqlNext ==
    \/ \E t \in Tasks, r \in GraphQLRequests : GqlBegin(t, r)
    \/ \E t \in Tasks : GqlSendOk(t)
    \/ \E t \in Tasks : GqlSendErr(t)
    \/ \E t \in Tasks, b \in GqlBodies : GqlBodyOk(t, b)
    \/ \E t \in Tasks : GqlBodyErr(t)

(* --------------------------- specifications ----------------------------- *)

Next == ProxyNext \/ WsNext \/ GqlNext

Spec == Init /\ [][Next]_vars

\* The runtime polls a task whose awaited cache lookup or timer is ready: a
\* lookup returns, and an armed timer fires unless the wait ends before.  The
\* upstream owes nothing: it may never answer.
\* The relay and the adapter alone.
RelayNext == WsNext \/ GqlNext

\* The runtime's timers fire: the 100 ms sleep of the send loop ends, and the
\* listen window's timer fires unless the listen loop ends before.  The peer
\* and the network owe nothing.
FairRelaySpec ==
    /\ Init /\ [][RelayNext]_vars
    /\ \A t \in Tasks :
           /\ WF_vars(WsSleep(t))
           /\ WF_vars(WsListenTimeout(t))

FairProxySpec ==
    /\ ProxySpec
    /\ \A t \in Tasks :
           /\ WF_vars(ProxyLookup(t))
           /\ WF_vars(ProxyStored(t))
           /\ WF_vars(ProxyClientTimeout(t))
           /\ WF_vars(ProxyTimeout(t))
           /\ WF_vars(ProxyBodyClientTimeout(t))

(* ------------------------------ properties ------------------------------ *)

\* Two requests with the same method, url, headers mapping, body and use_cache.
SameRequest(r1, r2) ==
    /\ r1.method = r2.method
    /\ r1.url = r2.url
    /\ r1.headers.some = r2.headers.some
    /\ HeaderEntries(r1.headers) = HeaderEntries(r2.headers)
    /\ r1.body = r2.body
    /\ r1.use_cache = r2.use_cache

IsProxy(t) == handler[t] = "proxy"
IsWs(t) == handler[t] = "websocket"
Done(t) == pc[t] = "done"
InFlight(t) ==
    IsProxy(t) /\ pc[t] \in {"p_lookup", "p_send", "p_body", "p_store"}

\* C1: when the same cacheable GET request is issued again after a fetch of it
\* has returned (2xx, decodable body) and while that fetch's entry is still in
\* the cache, the first response carries cached=false, the second is served
\* from the cache and carries cached=true, and both carry the same status and
\* body.
C1_RepeatServedFromCacheMarkedCached ==
    \A t1, t2 \in Tasks :
        ( /\ IsProxy(t1) /\ IsProxy(t2) /\ Done(t2)
          /\ t1 \in prior[t2]
          /\ LookupEligible(req[t1])
          /\ SameRequest(req[t1], req[t2]) )
        => /\ result[t1].json.cached = FALSE
           /\ path[t2] = "hit"
           /\ result[t2].json.cached = TRUE
           /\ result[t2].json.status = result[t1].json.status
           /\ result[t2].json.body = result[t1].json.body

\* C2: the active-request gauge equals the number of proxy calls in flight (and
\* so is 0 when none is).
C2_GaugeCountsCallsInFlight ==
    ACTIVE_REQUESTS = Cardinality({t \in Tasks : InFlight(t)})

\* C3: every cache entry was stored by a proxy call whose request had
\* use_cache=true and method GET and whose upstream status was in [200,300),
\* under the request's fingerprint, and the stored value has cached=false.
C3_CacheEntriesAreEligibleFetches ==
    \A k \in DOMAIN cache :
        /\ k \in DOMAIN origin
        /\ IsProxy(origin[k])
        /\ req[origin[k]].use_cache
        /\ req[origin[k]].method = GET
        /\ k = generate_cache_key(req[origin[k]])
        /\ up[origin[k]].status = cache[k].status
        /\ cache[k].status >= 200 /\ cache[k].status < 300
        /\ cache[k].cached = FALSE

\* C3's case: an entry is in the cache while a websocket or graphql call is in
\* flight.
C3_Witness ==
    /\ DOMAIN cache # {}
    /\ \E t \in Tasks : handler[t] \in {"websocket", "graphql"} /\ ~Done(t)

\* C4: a proxy request whose method is POST or whose use_cache is false never
\* yields a cache hit: its call never returns a cached value, and once it has
\* returned it has contacted the upstream or failed before doing so.
C4_NoHitWithoutCacheableGet ==
    \A t \in Tasks :
        (IsProxy(t) /\ (req[t].method = POST \/ ~req[t].use_cache))
        => /\ pc[t] # "p_lookup"
           /\ path[t] # "hit"
           /\ Done(t) => (contacted[t] = 1 \/ path[t] = "unsupported")

\* C4's case: a GET with use_cache=false has fetched its response although an
\* entry under its very fingerprint was in the cache when it was issued and
\* still is.
C4_Witness ==
    \E t \in Tasks :
        /\ IsProxy(t) /\ Done(t) /\ path[t] = "ok"
        /\ ~req[t].use_cache /\ req[t].method = GET
        /\ generate_cache_key(req[t]) \in DOMAIN cache
        /\ \E u \in prior[t] :
               generate_cache_key(req[u]) = generate_cache_key(req[t])

\* C5: a proxy call whose wait for the upstream is ended by the elapsing
\* timeout fails with the Timeout outcome, HTTP 504 and "Request timeout", and
\* with no other.
C5_DeadlineYieldsGatewayTimeout ==
    \A t \in Tasks :
        (IsProxy(t) /\ path[t] \in {"timeout", "client_timeout"})
        => result[t] = HttpResponse(504, ErrorJson(<<"Request timeout">>))

\* The results a call ended by a timer returns.
TimeoutClass ==
    {HttpResponse(504, ErrorJson(<<"Request timeout">>)),
     HttpResponse(500, ErrorJson(<<"Request failed", TimedOutError>>))}

\* C6: every proxy call eventually returns; it contacts the upstream at most
\* once (no retry); and a call that has returned after contacting an upstream
\* that never answered and never failed returns a timeout-class error.
C6_EveryCallReturns ==
    /\ [](\A t \in Tasks :
              /\ contacted[t] <= 1
              /\ ( /\ IsProxy(t) /\ Done(t) /\ contacted[t] = 1
                   /\ up[t] = None /\ path[t] # "send_err" )
                 => result[t] \in TimeoutClass)
    /\ \A t \in Tasks : (IsProxy(t) ~> Done(t))

\* C6's case: a call has returned a timeout-class error without an answer of
\* the upstream.
C6_Witness ==
    \E t \in Tasks :
        /\ IsProxy(t) /\ Done(t) /\ contacted[t] = 1 /\ up[t] = None
        /\ path[t] = "timeout"

\* Two requests agree on the four fields the fingerprint is made of.
SameKeyFields(r1, r2) ==
    /\ r1.method = r2.method
    /\ r1.url = r2.url
    /\ r1.headers.some = r2.headers.some
    /\ HeaderEntries(r1.headers) = HeaderEntries(r2.headers)
    /\ r1.body = r2.body

\* The number of the four fields two requests differ in.
FieldsChanged(r1, r2) ==
    (IF r1.method = r2.method THEN 0 ELSE 1)
    + (IF r1.url = r2.url THEN 0 ELSE 1)
    + (IF /\ r1.headers.some = r2.headers.some
          /\ HeaderEntries(r1.headers) = HeaderEntries(r2.headers)
       THEN 0 ELSE 1)
    + (IF r1.body = r2.body THEN 0 ELSE 1)

\* C7: two requests (separate objects) with identical method, url, headers
\* mapping and body have the identical fingerprint, and two requests that
\* differ in one of the four fields have different fingerprints.
C7_FingerprintIsFunctionOfFields ==
    \A t1, t2 \in Tasks :
        (IsProxy(t1) /\ IsProxy(t2))
        => /\ SameKeyFields(req[t1], req[t2])
                => generate_cache_key(req[t1]) = generate_cache_key(req[t2])
           /\ FieldsChanged(req[t1], req[t2]) = 1
                => generate_cache_key(req[t1]) # generate_cache_key(req[t2])

\* The "sent" entries of a transcript, and the number of them.
SentCount(tr) == Cardinality({j \in DOMAIN tr : tr[j].direction = "sent"})

\* A transcript whose "sent" entries come first and are the first messages of
\* the list msgs, in the list's order, every later entry being "received".
SentThenReceived(tr, msgs) ==
    /\ SentCount(tr) <= Len(msgs)
    /\ \A j \in DOMAIN tr :
           IF j <= SentCount(tr)
           THEN tr[j] = WebSocketMessage("sent", msgs[j])
           ELSE tr[j].direction = "received"

\* C8: in a relay session no inbound frame is read before the send phase is
\* over, and in the transcript, also as returned, every "sent" entry precedes
\* every "received" entry, the "sent" entries in the order of the message list.
C8_SendPhaseThenListenPhase ==
    \A t \in Tasks :
        IsWs(t) =>
            /\ pc[t] \in {"ws_connect", "ws_send", "ws_sleep"}
                 => /\ ws[t].reads = 0
                    /\ SentCount(ws[t].messages) = Len(ws[t].messages)
            /\ SentThenReceived(ws[t].messages, req[t].messages)
            /\ (Done(t) /\ result[t].code = 200)
                 => result[t].json.messages = ws[t].messages

\* C8's case: a session that sent two messages and then recorded two received
\* frames has returned.
C8_Witness ==
    \E t \in Tasks :
        /\ IsWs(t) /\ Done(t) /\ result[t].code = 200
        /\ SentCount(result[t].json.messages) >= 2
        /\ Len(result[t].json.messages) >= SentCount(result[t].json.messages) + 2
        /\ ws[t].reads >= 2

\* C9: if the send of message k is the first to fail, no message after k is put
\* on the wire, the transcript holds "sent" entries for exactly messages 1..k-1
\* followed by what is received, the listen phase runs, and the call returns
\* status "completed", not an error.
C9_FailedSendEndsSendingOnly ==
    \A t \in Tasks :
        (IsWs(t) /\ ws[t].failed_at > 0)
        => /\ ws[t].wire = SubSeq(req[t].messages, 1, ws[t].failed_at - 1)
           /\ SentCount(ws[t].messages) = ws[t].failed_at - 1
           /\ SentThenReceived(ws[t].messages, req[t].messages)
           /\ ws[t].listened
           /\ pc[t] \in {"ws_listen", "done"}
           /\ Done(t) => /\ result[t].code = 200
                         /\ result[t].json.status = "completed"
                         /\ result[t].json.messages = ws[t].messages

\* C9's case: of three messages the second was the first to fail, the listen
\* phase recorded a frame, and the call has returned.
C9_Witness ==
    \E t \in Tasks :
        /\ IsWs(t) /\ Done(t)
        /\ Len(req[t].messages) = 3 /\ ws[t].failed_at = 2
        /\ Len(ws[t].messages) = 2

\* C10 as stated: a proxy request whose method is not one of GET, POST, PUT,
\* DELETE, PATCH fails with UnsupportedMethod (HTTP 400), and the upstream is
\* never contacted during the call.
C10_Original ==
    \A t \in Tasks :
        (IsProxy(t) /\ req[t].method \notin SupportedMethods)
        => /\ contacted[t] = 0
           /\ Done(t) => result[t] =
                  HttpResponse(400, ErrorJson(<<"Unsupported HTTP method">>))

\* C10, amended: a proxy request whose method, upper-cased, is not one of GET,
\* POST, PUT, DELETE, PATCH fails with UnsupportedMethod (HTTP 400), and the
\* upstream is never contacted during the call.
C10_UnsupportedMethodRejected ==
    \A t \in Tasks :
        (IsProxy(t) /\ to_uppercase(req[t].method) \notin SupportedMethods)
        => /\ contacted[t] = 0
           /\ path[t] \in {"none", "unsupported"}
           /\ Done(t) => result[t] =
                  HttpResponse(400, ErrorJson(<<"Unsupported HTTP method">>))

\* C10's case: a TRACE request has been rejected.
C10_Witness ==
    \E t \in Tasks :
        /\ IsProxy(t) /\ Done(t) /\ req[t].method = TRACE
        /\ result[t].code = 400 /\ contacted[t] = 0

\* C11: when the upstream has answered a proxy call and the response body does
\* not decode as JSON, the call returns a successful ProxyResponse (HTTP 200)
\* with body null, cached false, and the upstream's status and headers.
C11_DecodeFailureReturnsNullBody ==
    \A t \in Tasks :
        (IsProxy(t) /\ Done(t) /\ path[t] \in {"decode_err", "body_timeout"})
        => /\ result[t].code = 200
           /\ result[t].json.body = Null
           /\ result[t].json.cached = FALSE
           /\ result[t].json.status = up[t].status
           /\ result[t].json.headers = up[t].headers

\* C11's case: an upstream answer with a status outside [200,300) whose body
\* did not decode has been returned.
C11_Witness ==
    \E t \in Tasks :
        /\ IsProxy(t) /\ Done(t) /\ path[t] = "decode_err"
        /\ up[t].status = 300 /\ result[t].json.body = Null

\* The relay's connection has been established (the send loop was entered).
Connected(t) == ws[t].i >= 1

\* C12: a relay call whose URL does not parse ends with HTTP 400 and one whose
\* connect fails ends with HTTP 500, in both cases before any message is sent
\* or any frame is read; no other relay call returns an error response: once
\* the connection is established, a call that returns returns status
\* "completed".
C12_RelayErrorsOnlyBeforeConnection ==
    \A t \in Tasks :
        IsWs(t) =>
            /\ ~UrlParses(req[t].url)
                 => /\ Done(t) /\ path[t] = "invalid_url"
                    /\ result[t].code = 400
            /\ path[t] = "connect_err" => Done(t) /\ result[t].code = 500
            /\ (Done(t) /\ result[t].code # 200)
                 => /\ path[t] \in {"invalid_url", "connect_err"}
                    /\ ~Connected(t)
                    /\ ws[t].wire = <<>> /\ ws[t].messages = <<>>
                    /\ ws[t].reads = 0 /\ ~ws[t].listened
            /\ (Done(t) /\ Connected(t))
                 => /\ result[t].code = 200
                    /\ result[t].json.status = "completed"

\* C12's case: a call whose first send failed and whose read failed has
\* returned.
C12_Witness ==
    \E t \in Tasks :
        /\ IsWs(t) /\ Done(t) /\ path[t] = "recv_err" /\ ws[t].failed_at = 1
        /\ result[t].code = 200

\* The exit paths of proxy that return an error response.
ErrorPaths == {"unsupported", "send_err", "client_timeout", "timeout"}

\* C13: a proxy call that ends in an error outcome (unsupported method,
\* upstream unreachable, timeout) leaves the cache as it is: such a call never
\* got an upstream response, and every step of a call that has no upstream
\* response leaves the keys and the stored values of the cache unchanged,
\* whatever other calls do between its steps.
C13_FailedCallLeavesCacheUnchanged ==
    /\ [](\A t \in Tasks :
              (IsProxy(t) /\ Done(t) /\ path[t] \in ErrorPaths)
              => up[t] = None)
    /\ [][\A t \in Tasks :
              (pc'[t] # pc[t] /\ handler'[t] = "proxy" /\ up'[t] = None)
              => cache' = cache]_vars

\* C13's case: a call has failed while another call awaits its insert, and the
\* entry under the failed call's own fingerprint is in the cache.
C13_Witness ==
    \E t, u \in Tasks :
        /\ IsProxy(t) /\ Done(t) /\ path[t] = "send_err"
        /\ generate_cache_key(req[t]) \in DOMAIN cache
        /\ IsProxy(u) /\ pc[u] = "p_store"

RECURSIVE SumOver(_, _)
\* The sum of f over the labels in S.
SumOver(f, S) ==
    IF S = {} THEN 0
    ELSE LET l == CHOOSE x \in S : TRUE IN f[l] + SumOver(f, S \ {l})

\* The total of the request counter over all its label values.
CounterTotal == SumOver(HTTP_REQUESTS_TOTAL, DOMAIN HTTP_REQUESTS_TOTAL)

\* C16: every proxy call that obtains an upstream response is recorded in the
\* request counter and in the duration histogram, whether or not its body
\* decodes: whenever no proxy call is in flight, the number of histogram
\* observations equals the total of the request counter.
C16_HistogramMatchesCounter ==
    (\A t \in Tasks : ~InFlight(t)) => REQUEST_DURATION = CounterTotal

\* C17: whenever a proxy call with use_cache=true and method GET has obtained
\* an upstream response with status in [200,300), its result is stored under
\* the request's fingerprint before the call returns, also when the body did
\* not decode: such a call returns from the await of its cache insert, and
\* from nowhere else.
C17_EligibleResponseIsStored ==
    [][\A t \in Tasks :
          ( /\ IsProxy(t) /\ pc[t] # "done" /\ pc'[t] = "done"
            /\ req[t].use_cache /\ req[t].method = GET
            /\ up[t] # None
            /\ up[t].status >= 200 /\ up[t].status < 300 )
          => pc[t] = "p_store"]_vars

\* The "received" entries of a transcript.
ReceivedCount(tr) ==
    Cardinality({j \in DOMAIN tr : tr[j].direction = "received"})

\* C14: in the listen phase a "received" entry is appended only for an inbound
\* text frame: the transcript holds as many "received" entries as text frames
\* were read, every other frame (binary, ping, close) adding none; and no
\* inbound frame makes the call return an error.
C14_OnlyTextFramesAreRecorded ==
    \A t \in Tasks :
        IsWs(t) =>
            /\ ReceivedCount(ws[t].messages) = ws[t].texts
            /\ (Done(t) /\ ws[t].listened) => result[t].code = 200

\* C15: the listen phase is bounded by the caller's duration, 5 seconds when
\* none is given; it ends by the connection ending, a read error or the
\* window elapsing, whichever is first, with status "completed" and with every
\* entry recorded until then in the returned transcript; and once listening
\* has started the call eventually returns, whatever the peer does.
C15_ListenPhaseEnds ==
    /\ [](\A t \in Tasks :
              (IsWs(t) /\ ws[t].listened)
              => /\ ws[t].window =
                       (IF req[t].duration.some THEN req[t].duration.v ELSE 5)
                 /\ Done(t)
                      => /\ path[t] \in {"closed", "recv_err", "window"}
                         /\ result[t].code = 200
                         /\ result[t].json.status = "completed"
                         /\ result[t].json.messages = ws[t].messages)
    /\ \A t \in Tasks : (pc[t] = "ws_listen") ~> Done(t)

\* C15's case: a session without a duration of its own was ended by its
\* window after the peer's frames had been read, and the returned transcript
\* holds the received entries.
C15_Witness ==
    \E t \in Tasks :
        /\ IsWs(t) /\ Done(t) /\ path[t] = "window"
        /\ ~req[t].duration.some /\ ws[t].window = 5
        /\ ws[t].reads = MaxFrames
        /\ ReceivedCount(result[t].json.messages) >= 1

\* C18: the duration_ms of every ProxyResponse a call returns, a response
\* served from the cache included, is the time from the start of that call to
\* the moment that call produced the response (its timestamp): the timestamp
\* was taken during the call, and duration_ms is its distance from the call's
\* start; a hit does not return what an earlier call measured.
C18_DurationIsOfTheReturningCall ==
    \A t \in Tasks :
        (IsProxy(t) /\ Done(t) /\ result[t].code = 200)
        => /\ result[t].json.timestamp >= start_time[t]
           /\ result[t].json.timestamp <= now
           /\ result[t].json.duration_ms =
                  result[t].json.timestamp - start_time[t]

\* C19: every network attempt is bounded by a deadline: a graphql call whose
\* upstream never responds, and a websocket call whose connect or send never
\* completes, eventually return.
C19_NetworkWaitsAreBounded ==
    \A t \in Tasks : (handler[t] \in {"graphql", "websocket"}) ~> Done(t)

\* C20: a proxy request with use_cache=true whose method is another casing of
\* GET is forwarded to the upstream as a GET on every call: its call never
\* awaits the cache lookup or an insert, never returns a hit, contacts the
\* upstream, and no cache entry is its own or lies under its fingerprint.
C20_OtherCasingOfGetBypassesCache ==
    \A t \in Tasks :
        ( /\ IsProxy(t) /\ req[t].use_cache
          /\ req[t].method # GET /\ to_uppercase(req[t].method) = GET )
        => /\ pc[t] \notin {"p_lookup", "p_store"}
           /\ path[t] # "hit"
           /\ contacted[t] = 1
           /\ request_builder[t] = Some(RequestBuilder(GET, req[t].url))
           /\ generate_cache_key(req[t]) \notin DOMAIN cache
           /\ \A k \in DOMAIN cache : origin[k] # t

\* C20's case: the same "get" request with use_cache=true has been answered
\* 200 twice, with a decodable body, and the cache is empty.
C20_Witness ==
    \E t, u \in Tasks :
        /\ t # u /\ IsProxy(t) /\ IsProxy(u) /\ Done(t) /\ Done(u)
        /\ req[t].method = get /\ req[t].use_cache /\ req[u] = req[t]
        /\ path[t] = "ok" /\ path[u] = "ok"
        /\ up[t].status = 200 /\ up[u].status = 200
        /\ DOMAIN cache = {}

=============================================================================
